---- MODULE Spec2Model ----
(***************************************************************************)
(* Model of the open-positions summary aggregator and its per-profile     *)
(* cache (app/services.py, get_open_positions_summary_for_profile), as it  *)
(* is run by several request-handling threads of one process.             *)
(* The routes that carry the login and the portal views (app/routes.py)   *)
(* are modelled next to it, with the rows of the portals table.           *)
(***************************************************************************)
EXTENDS Integers, Sequences, FiniteSets, TLC

\* ------------------------------------------------------------------ constants

\* services.py: OPEN_POSITIONS_CACHE_TTL = 15  (seconds)
OPEN_POSITIONS_CACHE_TTL == 15

\* services.py: MAX_PARALLEL_WORKERS = 10
MAX_PARALLEL_WORKERS == 10

\* ------------------------------------------------------------------ bounds

\* Last value the clock takes.
MaxTime == 16

\* Number of aggregation calls started in one behaviour of Spec.
MaxCalls == 3

\* Number of aggregation calls started in one behaviour of SpecAgg.
MaxAggCalls == 1

\* Longest list of open signals the upstream returns.
MaxCount == 2

\* Views counted on one portal in one behaviour of SpecPortal.
MaxViews == 3

\* Successful copies counted on one portal in one behaviour.
MaxCopies == 2

\* Rows of the portals table.
MaxPortals == 3

\* Requests for one portal that the workers handle at the same time.
MaxRequests == 3

\* PKCE verifiers generated in one behaviour.
MaxLogins == 2

\* Last value of the UTC clock of SpecPortal.
MaxUtc == 3

\* Number of accounts of the long list of SpecPool: more than the executor
\* has workers.
PoolSize == 12

\* Request-handling threads of the process.
Threads == {1, 2}

\* Profile identifiers used as cache keys.
Profiles == {"p1", "p2"}

\* Values time.time() takes: the start, and the seconds from the last one
\* within the TTL of an entry generated at the start (TTL - 1) onwards.
ClockValues == {0} \cup ((OPEN_POSITIONS_CACHE_TTL - 1)..MaxTime)

\* ------------------------------------------------------------------ values

\* Python's None, and a key that a dict does not hold.
None == "<None>"
Absent == "<absent>"

\* dict.get(key, default) on a field of a copier dict.
Get(value, default) == IF value = Absent THEN default ELSE value

\* str(x) for the values an id takes.
Str(value) == IF value = None THEN "None" ELSE value

\* Copier dicts as get_accounts_list() and other callers build them.
A1 == [id |-> "a", name |-> "Alpha", server |-> "S1", username |-> "u1"]
A2 == [id |-> "b", name |-> "Beta", server |-> "S2", username |-> "u2"]
A3 == [id |-> "c", name |-> Absent, server |-> Absent, username |-> Absent]
ADup == [id |-> "a", name |-> "Alpha2", server |-> "S3", username |-> "u3"]
AEmpty == [id |-> "", name |-> "Empty", server |-> "S1", username |-> "u4"]
ANoId == [id |-> Absent, name |-> "NoId", server |-> "S1", username |-> "u5"]
ANone == [id |-> None, name |-> None, server |-> "N/A", username |-> "N/A"]

\* The copiers_list argument: a list, or None.
List(items) == [none |-> FALSE, items |-> items]
NoneList == [none |-> TRUE, items |-> <<>>]

CopierLists ==
    { NoneList, List(<<>>), List(<<A1>>), List(<<A1, A2>>), List(<<A2, A1, A3>>),
      List(<<A1, ADup>>), List(<<AEmpty, A2>>), List(<<ANoId>>), List(<<ANone, A1>>) }

\* The lists the concurrent threads of Spec are called with.
SmallLists == { List(<<>>), List(<<A1>>) }

\* Python truthiness of the copiers_list argument: `not copiers_list`.
NotList(l) == l.none \/ l.items = <<>>

\* What one GET /api/copiers/{id}/signals/open may come to: an exception of
\* requests (timeout, connection error), or a response with a status and a
\* body that is a JSON list of `len` signals, another JSON value, or no JSON.
Responses ==
    { [exc |-> "none", status |-> 200, body |-> "list", len |-> k] : k \in 0..MaxCount }
    \cup { [exc |-> "none", status |-> 200, body |-> "dict", len |-> 1],
           [exc |-> "none", status |-> 200, body |-> "invalid", len |-> 0],
           [exc |-> "none", status |-> 500, body |-> "list", len |-> 1],
           [exc |-> "Timeout", status |-> 0, body |-> "invalid", len |-> 0],
           [exc |-> "ConnectionError", status |-> 0, body |-> "invalid", len |-> 0] }

\* The responses the upstream gives in Spec: the longest list, or a timeout.
SmallResponses ==
    {r \in Responses : (r.body = "list" /\ r.status = 200 /\ r.len = MaxCount)
                           \/ r.exc = "Timeout"}

NoResponse == [exc |-> "pending", status |-> 0, body |-> "invalid", len |-> 0]

\* ------------------------------------------------------------------ state

VARIABLES
    now,              \* the wall clock, time.time()
    cache,            \* _open_positions_cache: profile_id -> {timestamp, data}
    pc,               \* where each thread is in the call
    profile_id,       \* argument of the thread's call
    copiers_list,     \* argument of the thread's call
    current_time,     \* local of the call: the clock read on entry
    copier_info_map,  \* local: the dict of copier infos, in insertion order
    futures,          \* local: the futures submitted to the call's executor
    copier_counts,    \* local: copier_id -> count
    ret,              \* what the call returned
    ncalls,           \* calls started so far
    token,            \* argument of the thread's call: the bearer token
    cached,           \* local of the running call: the entry its check read
    session,          \* the Flask session of one browser
    nlogins,          \* PKCE verifiers generated so far
    exchanges,        \* history: verifier -> token exchanges made with it
    pending_next,     \* history: url of the last portal request sent to login
    portals,          \* the rows of the portals table, by slug
    utc_now,          \* datetime.utcnow(), counted in parts of a day
    viewed,           \* history: the tracked views served, (slug, profile, day)
    copying,          \* upstream: the (copier, strategy) pairs being copied
    response,         \* the response to the browser's last request
    workers           \* the requests that workers handle concurrently

\* The session and what is remembered of its use.
auth_vars == << session, nlogins, exchanges, pending_next >>

\* The database and what is remembered of its use.
db_vars == << portals, viewed >>

\* The state of the web routes, of their database and of the upstream.
web_vars == << auth_vars, db_vars, utc_now, copying, response, workers >>

vars == << now, cache, pc, profile_id, copiers_list, current_time,
           copier_info_map, futures, copier_counts, ret, ncalls, token, cached,
           web_vars >>

NoResult ==
    [ copiers_with_positions |-> <<>>, total_copiers_with_positions |-> -1,
      total_open_positions |-> -1, cached |-> FALSE, timestamp |-> -1 ]

\* The local `cached` of a call that read no entry.
NoEntry == [timestamp |-> -1, data |-> NoResult]

\* ------------------------------------------------------------------ web values

\* The variables of the aggregator.
agg_vars == << now, cache, pc, profile_id, copiers_list, current_time,
               copier_info_map, futures, copier_counts, ret, ncalls, token, cached >>

\* Access tokens the identity provider issues, and the profile that
\* /connect/userinfo names for each.
Tokens == {"tokA", "tokB"}
ProfileOfToken(tok) == IF tok = "tokA" THEN "p1" ELSE "p2"

\* What exchange_code_for_token returns: a dict with an access_token, or an
\* error dict.
TokenResponses ==
    { [access_token |-> tok] : tok \in Tokens } \cup { [access_token |-> Absent] }

\* A session without any key.
NoSession ==
    [ verifier |-> None, access_token |-> None, next_url |-> None,
      active_portal_slug |-> None, admin_authenticated |-> FALSE ]

\* A row of the portals table.
PortalRow(name, active) ==
    [ name |-> name, is_active |-> active, total_views |-> 0, last_viewed_at |-> -1,
      successful_copies |-> 0, last_copied_at |-> -1 ]

\* The portals table: an active portal and a deactivated one.
InitialPortals ==
    [ slug \in {"alpha", "beta"} |-> PortalRow("Portal", slug = "alpha") ]

\* The slugs requested: the two portals and one that no portal has.
Slugs == {"alpha", "beta", "nope"}

\* request.url of /p/<slug>
PortalUrl(slug) == "/p/" \o slug

\* The response to a request: a redirect, a rendered page (with the token
\* its data was fetched with), or a bare status; `calls` are the calls made
\* to the identity provider and to the trading API while handling it.
Redirect(location, calls) ==
    [ status |-> 302, location |-> location, page |-> None, token |-> None,
      calls |-> calls ]
Page(name, tok, calls) ==
    [ status |-> 200, location |-> None, page |-> name, token |-> tok,
      calls |-> calls ]
Status(code, calls) ==
    [ status |-> code, location |-> None, page |-> None, token |-> None,
      calls |-> calls ]

\* The request a route handled (the route, its arguments, the message put
\* in the query of a redirect) with the response it returned.
Answer(route, form, flash, r) ==
    [ route |-> route, form |-> form, flash |-> flash, status |-> r.status,
      location |-> r.location, page |-> r.page, token |-> r.token,
      calls |-> r.calls ]

\* A request without arguments.
NoForm == [ empty |-> TRUE ]

NoRequest == Answer("", NoForm, "", Status(0, <<>>))

\* Python truthiness of a form field: a missing field is None, an empty
\* one the empty string.
Falsy(v) == v \in {None, ""}

\* Form values of copier_id and strategy_id.
CopierIds == {None, "c1"}
StrategyIds == {None, "s1"}

\* Form values of trade_size_value: empty, a numeral, not a numeral.
TradeSizeValues == {"", "1.5", "abc"}

\* float(trade_size_value) raises ValueError.
FloatRaises(v) == v = "abc"

\* Form values of source and of portal_slug.
Sources == {"dashboard", "copying", "portal"}
PortalSlugs == {None, "alpha", "nope"}

\* Status codes of get_copy_settings: 200 copying, 404 not copying, 0 for an
\* exception of requests.
GetStatuses == {200, 404, 0}

\* What the upstream may answer to GET copy-settings for a pair: 200 only
\* for a pair that is copied, 404 only for one that is not.
MayAnswer(pair, status) ==
    /\ status = 200 => pair \in copying
    /\ status = 404 => pair \notin copying

\* The calls that write to the trading API.
WriteCalls ==
    {"PUT copy-settings", "POST copy-settings", "DELETE copy-settings",
     "POST copier", "DELETE copier"}

\* The calls to the trading API.
ApiCalls == WriteCalls \cup {"userinfo", "fetch", "fetch 401", "GET copy-settings"}

\* The clock counts parts of a day; date() of a datetime is its day.
PartsPerDay == 2
UtcDate(t) == t \div PartsPerDay

\* ------------------------------------------------------------------ helpers

\* Mutant: the status of the response is not looked at.
GetCopierOpenCountAnyStatus(resp) ==
    IF resp.exc # "none" THEN 0
    ELSE IF resp.body = "list" THEN resp.len ELSE 0

\* _get_copier_open_count: the count of one response, 0 on any error.
GetCopierOpenCount(resp) ==
    IF resp.exc # "none" THEN 0
    ELSE IF resp.status = 200
         THEN IF resp.body = "invalid" THEN 0
              ELSE IF resp.body = "list" THEN resp.len ELSE 0
         ELSE 0

\* Mutant: an entry is still valid when exactly TTL seconds old.
CacheValidInclusive(entry, t) == t - entry.timestamp <= OPEN_POSITIONS_CACHE_TTL

\* Mutant: the comparison is turned around.
CacheValidInverted(entry, t) == t - entry.timestamp > OPEN_POSITIONS_CACHE_TTL

\* current_time - cached['timestamp'] < OPEN_POSITIONS_CACHE_TTL
CacheValid(entry, t) == t - entry.timestamp < OPEN_POSITIONS_CACHE_TTL

\* The check of the cache: the key is present and its entry is within the TTL.
CacheHit(c, p, t) == p \in DOMAIN c /\ CacheValid(c[p], t)

\* Mutant: the stored summary is returned with the flag it was stored with.
HitResultPlain(entry) == entry.data

\* {**cached['data'], 'cached': True}
HitResult(entry) == [entry.data EXCEPT !.cached = TRUE]

\* Mutant: an entry is stored only for a key the cache does not hold yet.
StoreEntryIfAbsent(c, p, t, data) ==
    [q \in DOMAIN c \cup {p} |->
        IF q \in DOMAIN c THEN c[q] ELSE [timestamp |-> t, data |-> data]]

\* Mutant: nothing is stored.
StoreEntryNoop(c, p, t, data) == c

\* Mutant: the data of a present entry is replaced and its timestamp kept.
StoreEntryKeepStamp(c, p, t, data) ==
    [q \in DOMAIN c \cup {p} |->
        IF q # p THEN c[q]
        ELSE [timestamp |-> IF p \in DOMAIN c THEN c[p].timestamp ELSE t, data |-> data]]

\* Mutant: on a store the entries that are past their TTL are dropped.
StoreEntryEvict(c, p, t, data) ==
    [q \in {x \in DOMAIN c : CacheValid(c[x], t)} \cup {p} |->
        IF q = p THEN [timestamp |-> t, data |-> data] ELSE c[q]]

\* _open_positions_cache[profile_id] = {'timestamp': ..., 'data': ...}
StoreEntry(c, p, t, data) ==
    [q \in DOMAIN c \cup {p} |->
        IF q = p THEN [timestamp |-> t, data |-> data] ELSE c[q]]

\* The all-zero summary of an empty copiers_list.
EmptyResult(t) ==
    [ copiers_with_positions |-> <<>>, total_copiers_with_positions |-> 0,
      total_open_positions |-> 0, cached |-> FALSE, timestamp |-> t ]

\* The info dict of one copier.
CopierInfo(copier) ==
    [ copier_id |-> Str(Get(copier.id, "")),
      name |-> Get(copier.name, "Unknown"),
      server_code |-> Get(copier.server, "N/A"),
      username |-> Get(copier.username, "N/A") ]

\* Index of key k in the dict m (a sequence of infos), 0 when absent.
KeyIndex(m, k) ==
    LET S == {i \in 1..Len(m) : m[i].copier_id = k}
    IN  IF S = {} THEN 0 ELSE CHOOSE i \in S : TRUE

\* Mutant: the infos are kept in a list, one per copier with an id.
PutInfoAppend(m, copier) ==
    IF CopierInfo(copier).copier_id = "" THEN m ELSE Append(m, CopierInfo(copier))

\* copier_info_map[copier_id] = info: a new key goes last, a present key
\* keeps its place and takes the new value; an empty id is skipped.
PutInfo(m, copier) ==
    LET info == CopierInfo(copier)
        i == KeyIndex(m, info.copier_id)
    IN  IF info.copier_id = "" THEN m
        ELSE IF i = 0 THEN Append(m, info)
        ELSE [m EXCEPT ![i] = info]

RECURSIVE BuildInfoMapFrom(_, _)
BuildInfoMapFrom(m, items) ==
    IF items = <<>> THEN m
    ELSE BuildInfoMapFrom(PutInfo(m, Head(items)), Tail(items))

\* The loop that prepares copier_info_map from copiers_list.
BuildInfoMap(items) == BuildInfoMapFrom(<<>>, items)

\* futures = {executor.submit(fetch_count, cid): cid for cid in keys}
SubmitAll(m) ==
    [i \in 1..Len(m) |-> [cid |-> m[i].copier_id, state |-> "queued", resp |-> NoResponse]]

\* An empty dict.
EmptyDict == [k \in {} |-> 0]

\* d[k] = v
Put(d, k, v) == [x \in DOMAIN d \cup {k} |-> IF x = k THEN v ELSE d[x]]

\* copier_counts.get(copier_id, 0)
CountOf(counts, cid) == IF cid \in DOMAIN counts THEN counts[cid] ELSE 0

\* Mutant: every copier is listed, whatever its count (count >= 0).
RECURSIVE WithPositionsAll(_, _)
WithPositionsAll(m, counts) ==
    IF m = <<>> THEN <<>>
    ELSE LET info == Head(m)
         IN  << [ copier_id |-> info.copier_id, name |-> info.name,
                  server_code |-> info.server_code, username |-> info.username,
                  open_count |-> CountOf(counts, info.copier_id) ] >>
             \o WithPositionsAll(Tail(m), counts)

\* The loop over copier_info_map.items(): the entries with count > 0, in
\* the order of the dict, each info with its open_count.
RECURSIVE WithPositions(_, _)
WithPositions(m, counts) ==
    IF m = <<>> THEN <<>>
    ELSE LET info == Head(m)
             count == CountOf(counts, info.copier_id)
             rest == WithPositions(Tail(m), counts)
         IN  IF count > 0
             THEN << [ copier_id |-> info.copier_id, name |-> info.name,
                       server_code |-> info.server_code, username |-> info.username,
                       open_count |-> count ] >> \o rest
             ELSE rest

\* Mutant: total_open = count, so that the last count is the total.
TotalOpenLast(m, counts) ==
    IF m = <<>> THEN 0 ELSE CountOf(counts, m[Len(m)].copier_id)

\* total_open += count, over copier_info_map.items().
RECURSIVE TotalOpen(_, _)
TotalOpen(m, counts) ==
    IF m = <<>> THEN 0
    ELSE CountOf(counts, Head(m).copier_id) + TotalOpen(Tail(m), counts)

\* x goes before the first entry with a smaller open_count, so after its equals.
RECURSIVE InsertDesc(_, _)
InsertDesc(s, x) ==
    IF s = <<>> THEN << x >>
    ELSE IF Head(s).open_count < x.open_count THEN << x >> \o s
    ELSE << Head(s) >> \o InsertDesc(Tail(s), x)

RECURSIVE SortFrom(_, _)
SortFrom(sorted, s) ==
    IF s = <<>> THEN sorted ELSE SortFrom(InsertDesc(sorted, Head(s)), Tail(s))

\* Mutant: the list is left in the order of the dict.
SortDescNone(s) == s

\* list.sort(key=open_count, reverse=True): descending and stable.
SortDesc(s) == SortFrom(<<>>, s)

\* The summary built from the dict of infos and the fetched counts.
BuildResult(m, counts, t) ==
    LET ranked == SortDesc(WithPositions(m, counts))
    IN  [ copiers_with_positions |-> ranked,
          total_copiers_with_positions |-> Len(ranked),
          total_open_positions |-> TotalOpen(m, counts),
          cached |-> FALSE,
          timestamp |-> t ]

\* Futures of thread t in a given state.
InState(t, st) == {i \in 1..Len(futures[t]) : futures[t][i].state = st}

\* Upstream requests the call of thread t has issued for copier id cid.
Requests(t, cid) ==
    Cardinality({i \in 1..Len(futures[t]) :
                    futures[t][i].cid = cid /\ futures[t][i].state # "queued"})

\* All upstream requests the call of thread t has issued.
TotalRequests(t) == Cardinality({i \in 1..Len(futures[t]) : futures[t][i].state # "queued"})

\* ------------------------------------------------------------------ actions

Init ==
    /\ now = 0
    /\ cache = EmptyDict
    /\ pc = [t \in Threads |-> "idle"]
    /\ profile_id = [t \in Threads |-> "p1"]
    /\ copiers_list = [t \in Threads |-> NoneList]
    /\ current_time = [t \in Threads |-> 0]
    /\ copier_info_map = [t \in Threads |-> <<>>]
    /\ futures = [t \in Threads |-> <<>>]
    /\ copier_counts = [t \in Threads |-> EmptyDict]
    /\ ret = [t \in Threads |-> NoResult]
    /\ ncalls = 0
    /\ token = [t \in Threads |-> "tokA"]
    /\ cached = [t \in Threads |-> NoEntry]
    /\ session = NoSession
    /\ nlogins = 0
    /\ exchanges = EmptyDict
    /\ pending_next = None
    /\ portals = InitialPortals
    /\ utc_now = 0
    /\ viewed = {}
    /\ copying = { << "c1", "s1" >> }
    /\ response = NoRequest
    /\ workers = <<>>

\* The clock moves on.
Tick ==
    /\ \E n \in ClockValues : n > now /\ now' = n
    /\ UNCHANGED << cache, pc, profile_id, copiers_list, current_time,
                    copier_info_map, futures, copier_counts, ret, ncalls, token, cached, web_vars >>

\* A thread enters get_open_positions_summary_for_profile and reads the clock.
Begin(t, p, tok, l, maxcalls) ==
    /\ pc[t] \in {"idle", "done"}
    /\ ncalls < maxcalls
    /\ ncalls' = ncalls + 1
    /\ pc' = [pc EXCEPT ![t] = "check"]
    /\ profile_id' = [profile_id EXCEPT ![t] = p]
    /\ copiers_list' = [copiers_list EXCEPT ![t] = l]
    /\ current_time' = [current_time EXCEPT ![t] = now]
    /\ copier_info_map' = [copier_info_map EXCEPT ![t] = <<>>]
    /\ futures' = [futures EXCEPT ![t] = <<>>]
    /\ copier_counts' = [copier_counts EXCEPT ![t] = EmptyDict]
    /\ ret' = [ret EXCEPT ![t] = NoResult]
    /\ token' = [token EXCEPT ![t] = tok]
    /\ cached' = [cached EXCEPT ![t] = NoEntry]
    /\ UNCHANGED << now, cache, web_vars >>

\* Mutant: a call without accounts is not served from the cache.
CheckCacheListAware(t) ==
    /\ pc[t] = "check"
    /\ IF CacheHit(cache, profile_id[t], current_time[t]) /\ ~NotList(copiers_list[t])
       THEN /\ ret' = [ret EXCEPT ![t] = HitResult(cache[profile_id[t]])]
            /\ pc' = [pc EXCEPT ![t] = "done"]
            /\ UNCHANGED cached
       ELSE /\ pc' = [pc EXCEPT ![t] = "miss"]
            /\ cached' = [cached EXCEPT ![t] =
                             IF profile_id[t] \in DOMAIN cache
                             THEN cache[profile_id[t]] ELSE NoEntry]
            /\ UNCHANGED ret
    /\ UNCHANGED << now, cache, profile_id, copiers_list, current_time,
                    copier_info_map, futures, copier_counts, ncalls, token, web_vars >>

\* Mutant: a hit refreshes the timestamp of the entry (sliding expiry).
CheckCacheTouch(t) ==
    /\ pc[t] = "check"
    /\ IF CacheHit(cache, profile_id[t], current_time[t])
       THEN /\ ret' = [ret EXCEPT ![t] = HitResult(cache[profile_id[t]])]
            /\ pc' = [pc EXCEPT ![t] = "done"]
            /\ cache' = [cache EXCEPT ![profile_id[t]].timestamp = current_time[t]]
            /\ UNCHANGED cached
       ELSE /\ pc' = [pc EXCEPT ![t] = "miss"]
            /\ cached' = [cached EXCEPT ![t] =
                             IF profile_id[t] \in DOMAIN cache
                             THEN cache[profile_id[t]] ELSE NoEntry]
            /\ UNCHANGED << ret, cache >>
    /\ UNCHANGED << now, profile_id, copiers_list, current_time,
                    copier_info_map, futures, copier_counts, ncalls, token, web_vars >>

\* The check of the cache: a fresh entry is returned at once.
CheckCache(t) ==
    /\ pc[t] = "check"
    /\ IF CacheHit(cache, profile_id[t], current_time[t])
       THEN /\ ret' = [ret EXCEPT ![t] = HitResult(cache[profile_id[t]])]
            /\ pc' = [pc EXCEPT ![t] = "done"]
            /\ UNCHANGED cached
       ELSE /\ pc' = [pc EXCEPT ![t] = "miss"]
            /\ cached' = [cached EXCEPT ![t] =
                             IF profile_id[t] \in DOMAIN cache
                             THEN cache[profile_id[t]] ELSE NoEntry]
            /\ UNCHANGED ret
    /\ UNCHANGED << now, cache, profile_id, copiers_list, current_time,
                    copier_info_map, futures, copier_counts, ncalls, token, web_vars >>

\* `if not copiers_list`: the all-zero summary is stored and returned.
ReturnEmpty(t) ==
    /\ pc[t] = "miss"
    /\ NotList(copiers_list[t])
    /\ cache' = StoreEntry(cache, profile_id[t], current_time[t], EmptyResult(current_time[t]))
    /\ ret' = [ret EXCEPT ![t] = EmptyResult(current_time[t])]
    /\ pc' = [pc EXCEPT ![t] = "done"]
    /\ cached' = [cached EXCEPT ![t] = NoEntry]
    /\ UNCHANGED << now, profile_id, copiers_list, current_time,
                    copier_info_map, futures, copier_counts, ncalls, token, web_vars >>

\* The infos are prepared and one fetch per key is submitted to the executor.
SubmitFetches(t) ==
    /\ pc[t] = "miss"
    /\ ~NotList(copiers_list[t])
    /\ copier_info_map' = [copier_info_map EXCEPT ![t] = BuildInfoMap(copiers_list[t].items)]
    /\ futures' = [futures EXCEPT ![t] = SubmitAll(copier_info_map'[t])]
    /\ pc' = [pc EXCEPT ![t] = "fetch"]
    /\ UNCHANGED << now, cache, profile_id, copiers_list, current_time,
                    copier_counts, ret, ncalls, token, cached, web_vars >>

\* Mutant: the executor starts a worker for every submitted fetch.
StartFetchUnbounded(t) ==
    /\ pc[t] = "fetch"
    /\ InState(t, "queued") # {}
    /\ LET i == CHOOSE j \in InState(t, "queued") :
                    \A k \in InState(t, "queued") : j <= k
       IN  futures' = [futures EXCEPT ![t][i].state = "running"]
    /\ UNCHANGED << now, cache, pc, profile_id, copiers_list, current_time,
                    copier_info_map, copier_counts, ret, ncalls, token, cached, web_vars >>

\* A free worker of the call's executor takes the oldest queued fetch and
\* sends its request.
StartFetch(t) ==
    /\ pc[t] = "fetch"
    /\ InState(t, "queued") # {}
    /\ Cardinality(InState(t, "running")) < MAX_PARALLEL_WORKERS
    /\ LET i == CHOOSE j \in InState(t, "queued") :
                    \A k \in InState(t, "queued") : j <= k
       IN  futures' = [futures EXCEPT ![t][i].state = "running"]
    /\ UNCHANGED << now, cache, pc, profile_id, copiers_list, current_time,
                    copier_info_map, copier_counts, ret, ncalls, token, cached, web_vars >>

\* Mutant: a fetch that failed is put back in the queue of the executor.
CompleteFetchRetry(t, i, r) ==
    /\ pc[t] = "fetch"
    /\ i \in InState(t, "running")
    /\ IF GetCopierOpenCount(r) = 0 /\ r.exc # "none"
       THEN /\ futures' = [futures EXCEPT ![t][i].state = "queued"]
            /\ UNCHANGED copier_counts
       ELSE /\ futures' = [futures EXCEPT ![t][i].state = "done", ![t][i].resp = r]
            /\ copier_counts' = [copier_counts EXCEPT
                            ![t] = Put(@, futures[t][i].cid, GetCopierOpenCount(r))]
    /\ UNCHANGED << now, cache, pc, profile_id, copiers_list, current_time,
                    copier_info_map, ret, ncalls, token, cached, web_vars >>

\* A running fetch ends with response r; as_completed hands it to the
\* calling thread, which records its count.
CompleteFetch(t, i, r) ==
    /\ pc[t] = "fetch"
    /\ i \in InState(t, "running")
    /\ futures' = [futures EXCEPT ![t][i].state = "done", ![t][i].resp = r]
    /\ copier_counts' = [copier_counts EXCEPT
                            ![t] = Put(@, futures[t][i].cid, GetCopierOpenCount(r))]
    /\ UNCHANGED << now, cache, pc, profile_id, copiers_list, current_time,
                    copier_info_map, ret, ncalls, token, cached, web_vars >>

\* Mutant: the as_completed loop is left at the first completed fetch.
StoreResultEarly(t) ==
    /\ pc[t] = "fetch"
    /\ \E i \in 1..Len(futures[t]) : futures[t][i].state = "done"
    /\ LET result == BuildResult(copier_info_map[t], copier_counts[t], current_time[t])
       IN  /\ cache' = StoreEntry(cache, profile_id[t], current_time[t], result)
           /\ ret' = [ret EXCEPT ![t] = result]
    /\ pc' = [pc EXCEPT ![t] = "done"]
    /\ cached' = [cached EXCEPT ![t] = NoEntry]
    /\ UNCHANGED << now, profile_id, copiers_list, current_time,
                    copier_info_map, futures, copier_counts, ncalls, token, web_vars >>

\* Mutant: the summary is built once every fetch has succeeded.
StoreResultAllOk(t) ==
    /\ pc[t] = "fetch"
    /\ \A i \in 1..Len(futures[t]) :
          futures[t][i].state = "done" /\ futures[t][i].resp.exc = "none"
    /\ LET result == BuildResult(copier_info_map[t], copier_counts[t], current_time[t])
       IN  /\ cache' = StoreEntry(cache, profile_id[t], current_time[t], result)
           /\ ret' = [ret EXCEPT ![t] = result]
    /\ pc' = [pc EXCEPT ![t] = "done"]
    /\ cached' = [cached EXCEPT ![t] = NoEntry]
    /\ UNCHANGED << now, profile_id, copiers_list, current_time,
                    copier_info_map, futures, copier_counts, ncalls, token, web_vars >>

\* Every fetch is done: the summary is built, stored and returned.
StoreResult(t) ==
    /\ pc[t] = "fetch"
    /\ \A i \in 1..Len(futures[t]) : futures[t][i].state = "done"
    /\ LET result == BuildResult(copier_info_map[t], copier_counts[t], current_time[t])
       IN  /\ cache' = StoreEntry(cache, profile_id[t], current_time[t], result)
           /\ ret' = [ret EXCEPT ![t] = result]
    /\ pc' = [pc EXCEPT ![t] = "done"]
    /\ cached' = [cached EXCEPT ![t] = NoEntry]
    /\ UNCHANGED << now, profile_id, copiers_list, current_time,
                    copier_info_map, futures, copier_counts, ncalls, token, web_vars >>

\* The steps of one request-handling thread, called with profiles of Ps,
\* tokens of Ts and lists of Ls while the upstream answers with responses of Rs.
ThreadStep(t, Ps, Ts, Ls, Rs, maxcalls) ==
    \/ \E p \in Ps, tok \in Ts, l \in Ls : Begin(t, p, tok, l, maxcalls)
    \/ CheckCache(t)
    \/ ReturnEmpty(t)
    \/ SubmitFetches(t)
    \/ StartFetch(t)
    \/ \E i \in 1..Len(futures[t]), r \in Rs : CompleteFetch(t, i, r)
    \/ StoreResult(t)

\* The process: its request-handling threads call the aggregator concurrently.
Next ==
    \/ Tick
    \/ \E t \in Threads : ThreadStep(t, Profiles, {"tokA"}, SmallLists, SmallResponses, MaxCalls)

Spec == Init /\ [][Next]_vars

\* The threads call for one profile with either token.
NextHit ==
    \/ Tick
    \/ \E t \in Threads :
          ThreadStep(t, {"p1"}, Tokens, SmallLists, SmallResponses, MaxCalls)

SpecHit == Init /\ [][NextHit]_vars

\* One request-handling thread, every list and every upstream response.
NextAgg ==
    \/ Tick
    \/ ThreadStep(1, {"p1"}, {"tokA"}, CopierLists, Responses, MaxAggCalls)

SpecAgg == Init /\ [][NextAgg]_vars

\* A profile with more accounts than MAX_PARALLEL_WORKERS: account i of
\* get_accounts_list(), its id the decimal numeral of i.
PoolAccount(i) ==
    [id |-> ToString(i), name |-> "Pool", server |-> "S1", username |-> "u1"]

PoolList == List([i \in 1..PoolSize |-> PoolAccount(i)])

\* One request-handling thread called with the long list (or with no
\* account), every fetch answered with the longest list of signals.
NextPool ==
    ThreadStep(1, {"p1"}, {"tokA"}, {List(<<>>), PoolList},
               {r \in SmallResponses : r.exc = "none"}, MaxAggCalls)

SpecPool == Init /\ [][NextPool]_vars

\* The steps that carry a call of thread t on once it was entered.
Progress(t, Rs) ==
    \/ CheckCache(t)
    \/ ReturnEmpty(t)
    \/ SubmitFetches(t)
    \/ StartFetch(t)
    \/ \E i \in 1..Len(futures[t]), r \in Rs : CompleteFetch(t, i, r)
    \/ StoreResult(t)

\* The lists of SpecLive: no account, several accounts, two accounts of one id.
LiveLists == { List(<<>>), List(<<A1, A2>>), List(<<A2, A1, A3>>), List(<<A1, ADup>>) }

\* One request-handling thread whose fetches return or time out.  The
\* thread and the workers of its executor are scheduled, and requests.get
\* runs with timeout=SUMMARY_REQUEST_TIMEOUT, so a step of the call that
\* stays possible is taken.
NextLive ==
    \/ Tick
    \/ ThreadStep(1, {"p1"}, {"tokA"}, LiveLists, SmallResponses, MaxAggCalls)

SpecLive == Init /\ [][NextLive]_vars /\ WF_vars(Progress(1, SmallResponses))

\* The clock moves on while a request to the upstream is on its way.
TickDuringFetch ==
    /\ \E t \in Threads : InState(t, "running") # {}
    /\ Tick

\* One request-handling thread and a slow upstream: time passes only while
\* fetches run.
NextSlow ==
    \/ TickDuringFetch
    \/ ThreadStep(1, {"p1"}, {"tokA"}, LiveLists, SmallResponses, MaxAggCalls)

SpecSlow == Init /\ [][NextSlow]_vars

\* ------------------------------------------------------------------ web routes

\* The UTC clock moves on.
TickUtc ==
    /\ utc_now < MaxUtc
    /\ utc_now' = utc_now + 1
    /\ UNCHANGED << agg_vars, auth_vars, db_vars, copying, response, workers >>

\* GET /login: a fresh PKCE verifier is put in the session and the browser
\* sent to the identity provider.
Login ==
    /\ nlogins < MaxLogins
    /\ nlogins' = nlogins + 1
    /\ session' = [session EXCEPT !.verifier = "v" \o ToString(nlogins + 1)]
    /\ response' = Answer("login", NoForm, "", Redirect("/connect/authorize", <<>>))
    /\ UNCHANGED << agg_vars, exchanges, pending_next, db_vars, utc_now, copying,
                    workers >>

\* The exchange always redirects to the dashboard.
DashboardLocation(s) == "/"

\* next_url if next_url else url_for('index')
NextLocation(s) == IF s.next_url # None THEN s.next_url ELSE "/"

\* The rejected token stays in the session.
KeepToken(s) == s

\* session.pop('access_token', None)
DropToken(s) == [s EXCEPT !.access_token = None]

\* session.get('verifier'): the verifier stays in the session.
PeekVerifier(s) == s

\* session.pop('verifier', None)
PopVerifier(s) == [s EXCEPT !.verifier = None]

\* GET /: with a code and a verifier in the session the verifier is taken
\* out, the code exchanged and the token stored; otherwise the dashboard is
\* shown, for which a token that the upstream rejects is dropped from the
\* session.
Index(has_code, data, unauthorized) ==
    LET form == [ code |-> has_code ]
    IN
    /\ IF has_code /\ session.verifier # None
       THEN /\ exchanges' = Put(exchanges, session.verifier,
                                CountOf(exchanges, session.verifier) + 1)
            /\ IF data.access_token # Absent
               THEN /\ session' = [PopVerifier(session) EXCEPT
                                      !.access_token = data.access_token,
                                      !.next_url = None]
                    /\ response' =
                          Answer("index", form, "",
                                 Redirect(NextLocation(session), << "exchange" >>))
                    /\ pending_next' = None
               ELSE /\ session' = PopVerifier(session)
                    /\ response' =
                          Answer("index", form, "",
                                 Page("Token Exchange Error", None, << "exchange" >>))
                    /\ UNCHANGED pending_next
       ELSE /\ session' =
                  LET popped == [(IF has_code THEN PopVerifier(session) ELSE session)
                                   EXCEPT !.active_portal_slug = None]
                  IN  IF session.access_token # None /\ unauthorized
                      THEN DropToken(popped) ELSE popped
            /\ response' =
                  Answer("index", form, "",
                         IF session.access_token = None
                         THEN Page("login.html", None, <<>>)
                         ELSE IF unauthorized THEN Redirect("/", << "fetch 401" >>)
                         ELSE Page("index.html", session.access_token, << "fetch" >>))
            /\ UNCHANGED << exchanges, pending_next >>
    /\ UNCHANGED << agg_vars, nlogins, db_vars, utc_now, copying, workers >>

\* GET /logout: the session is cleared.
Logout ==
    /\ session' = NoSession
    /\ response' = Answer("logout", NoForm, "", Redirect("/connect/endsession", <<>>))
    /\ UNCHANGED << agg_vars, nlogins, exchanges, pending_next, db_vars, utc_now,
                    copying, workers >>

\* GET /p/<slug>: 404 without an active portal of that slug; without a token
\* the url is saved and the browser sent to the login; otherwise the view is
\* tracked when get_profile_id names a profile (pid), and a token that the
\* upstream rejects is dropped.
PortalView(slug, pid, unauthorized) ==
    LET form == [ slug |-> slug ]
    IN
    IF slug \notin DOMAIN portals \/ ~portals[slug].is_active
    THEN /\ response' = Answer("portal_view", form, "", Status(404, <<>>))
         /\ UNCHANGED << agg_vars, auth_vars, db_vars, utc_now, copying, workers >>
    ELSE IF session.access_token = None
    THEN /\ session' = [session EXCEPT !.next_url = PortalUrl(slug)]
         /\ pending_next' = PortalUrl(slug)
         /\ response' = Answer("portal_view", form, "", Redirect("/login", <<>>))
         /\ UNCHANGED << agg_vars, nlogins, exchanges, db_vars, utc_now, copying,
                         workers >>
    ELSE /\ pid \in {None, ProfileOfToken(session.access_token)}
         /\ IF pid # None
            THEN /\ portals[slug].total_views < MaxViews
                 /\ portals' = [portals EXCEPT ![slug].total_views = @ + 1,
                                               ![slug].last_viewed_at = utc_now]
                 /\ viewed' = viewed \cup { << slug, pid, UtcDate(utc_now) >> }
            ELSE UNCHANGED << portals, viewed >>
         /\ session' =
              LET active == [session EXCEPT !.active_portal_slug = slug]
              IN  IF unauthorized
                  THEN [DropToken(active) EXCEPT !.next_url = PortalUrl(slug)]
                  ELSE active
         /\ response' =
              Answer("portal_view", form, "",
                     IF unauthorized THEN Redirect("/", << "userinfo", "fetch 401" >>)
                     ELSE Page("portal.html", session.access_token,
                               << "userinfo", "fetch" >>))
         /\ UNCHANGED << agg_vars, nlogins, exchanges, pending_next, utc_now, copying,
                         workers >>

\* One browser and the routes it requests.
NextPortal ==
    \/ TickUtc
    \/ Login
    \/ \E has_code \in BOOLEAN, data \in TokenResponses, unauthorized \in BOOLEAN :
          Index(has_code, data, unauthorized)
    \/ Logout
    \/ \E slug \in Slugs, pid \in Profiles \cup {None}, unauthorized \in BOOLEAN :
          PortalView(slug, pid, unauthorized)

SpecPortal == Init /\ [][NextPortal]_vars

\* A copy is counted whatever page it was made from.
TrackedAnySource(api_success, source, portal_slug) ==
    /\ api_success /\ ~Falsy(portal_slug)
    /\ portal_slug \in DOMAIN portals

\* The copy is counted: it succeeded, was made from a portal page and the
\* portal of the submitted slug exists.
Tracked(api_success, source, portal_slug) ==
    /\ api_success /\ source = "portal" /\ ~Falsy(portal_slug)
    /\ portal_slug \in DOMAIN portals

\* POST /copy-strategy: the form is validated, GET copy-settings tells
\* whether the pair is copied (get_status), the settings are updated (PUT)
\* on 200 and created (POST) otherwise, and a successful copy made from a
\* portal is counted on the portal of that slug.
CopyStrategy(copier_id, strategy_id, trade_size_value, source, portal_slug,
             get_status, api_success) ==
    LET form == [ copier_id |-> copier_id, strategy_id |-> strategy_id,
                  source |-> source, portal_slug |-> portal_slug ]
        pair == << copier_id, strategy_id >>
        write == IF get_status = 200 THEN "PUT copy-settings" ELSE "POST copy-settings"
        tracked == Tracked(api_success, source, portal_slug)
    IN  IF session.access_token = None
        THEN /\ response' = Answer("copy_strategy", form, "", Redirect("/", <<>>))
             /\ UNCHANGED << portals, copying >>
        ELSE IF Falsy(copier_id) \/ Falsy(strategy_id)
        THEN /\ response' =
                   Answer("copy_strategy", form, "copy_error",
                          Redirect(IF source = "portal" /\ ~Falsy(portal_slug)
                                   THEN PortalUrl(portal_slug)
                                   ELSE IF source = "copying" THEN "/copying"
                                   ELSE "/", <<>>))
             /\ UNCHANGED << portals, copying >>
        ELSE IF ~Falsy(trade_size_value) /\ FloatRaises(trade_size_value)
        THEN /\ response' = Answer("copy_strategy", form, "", Status(500, <<>>))
             /\ UNCHANGED << portals, copying >>
        ELSE /\ MayAnswer(pair, get_status)
             /\ copying' = IF api_success /\ get_status # 200
                           THEN copying \cup {pair} ELSE copying
             /\ IF tracked
                THEN /\ portals[portal_slug].successful_copies < MaxCopies
                     /\ portals' = [portals EXCEPT
                                       ![portal_slug].successful_copies = @ + 1,
                                       ![portal_slug].last_copied_at = utc_now]
                ELSE UNCHANGED portals
             /\ response' =
                   Answer("copy_strategy", form,
                          IF api_success THEN "copy_success" ELSE "copy_error",
                          Redirect(IF source = "copying" THEN "/copying"
                                   ELSE IF source = "portal" /\ ~Falsy(portal_slug)
                                   THEN PortalUrl(portal_slug) ELSE "/",
                                   << "GET copy-settings", write >>))

\* stop_copy without the check of the token.
StopCopyUnguarded(copier_id, strategy_id, source, success) ==
    LET form == [ copier_id |-> copier_id, strategy_id |-> strategy_id,
                  source |-> source ]
        back == IF source = "dashboard" THEN "/" ELSE "/copying"
    IN  IF Falsy(copier_id) \/ Falsy(strategy_id)
        THEN /\ response' = Answer("stop_copy", form, "stop_error", Redirect(back, <<>>))
             /\ UNCHANGED copying
        ELSE /\ copying' = IF success THEN copying \ { << copier_id, strategy_id >> }
                           ELSE copying
             /\ response' =
                   Answer("stop_copy", form,
                          IF success THEN "stop_success" ELSE "stop_error",
                          Redirect(back, << "DELETE copy-settings" >>))

\* POST /stop-copy: the copy settings of the pair are deleted.
StopCopy(copier_id, strategy_id, source, success) ==
    LET form == [ copier_id |-> copier_id, strategy_id |-> strategy_id,
                  source |-> source ]
        back == IF source = "dashboard" THEN "/" ELSE "/copying"
    IN  IF session.access_token = None
        THEN /\ response' = Answer("stop_copy", form, "", Redirect("/", <<>>))
             /\ UNCHANGED copying
        ELSE IF Falsy(copier_id) \/ Falsy(strategy_id)
        THEN /\ response' = Answer("stop_copy", form, "stop_error", Redirect(back, <<>>))
             /\ UNCHANGED copying
        ELSE /\ copying' = IF success THEN copying \ { << copier_id, strategy_id >> }
                           ELSE copying
             /\ response' =
                   Answer("stop_copy", form,
                          IF success THEN "stop_success" ELSE "stop_error",
                          Redirect(back, << "DELETE copy-settings" >>))

\* GET /accounts: the accounts of the profile, read with the token.
Accounts(ok) ==
    response' =
        Answer("accounts", NoForm, "",
               IF session.access_token = None THEN Redirect("/", <<>>)
               ELSE IF ~ok THEN Status(500, << "fetch" >>)
               ELSE Page("accounts.html", session.access_token, << "fetch" >>))

\* GET /copying: the strategies each account copies.
Copying(pid) ==
    response' =
        Answer("copying", NoForm, "",
               IF session.access_token = None THEN Redirect("/", <<>>)
               ELSE IF pid = None THEN Status(500, << "userinfo" >>)
               ELSE Page("copying.html", session.access_token,
                         << "userinfo", "fetch" >>))

\* GET /copier-trades: the open positions of the accounts of the profile.
CopierTrades ==
    response' =
        Answer("copier_trades", NoForm, "",
               IF session.access_token = None THEN Redirect("/", <<>>)
               ELSE Page("copier_trades.html", session.access_token,
                         << "userinfo", "fetch" >>))

\* GET /accounts/servers: the servers of a broker, as JSON.
GetServers(broker_code, found) ==
    response' =
        Answer("get_servers", [ brokerCode |-> broker_code ], "",
               IF session.access_token = None THEN Status(401, <<>>)
               ELSE IF Falsy(broker_code) THEN Status(400, <<>>)
               ELSE IF ~found THEN Status(404, << "fetch" >>)
               ELSE Status(200, << "fetch" >>))

\* POST /accounts/link: a copier account is created for the profile.
LinkAccount(pid, fields_ok, success) ==
    response' =
        IF session.access_token = None
        THEN Answer("link_account", NoForm, "", Redirect("/", <<>>))
        ELSE IF pid = None \/ ~fields_ok
        THEN Answer("link_account", NoForm, "link_error",
                    Redirect("/accounts", << "userinfo" >>))
        ELSE Answer("link_account", NoForm,
                    IF success THEN "link_success" ELSE "link_error",
                    Redirect("/accounts", << "userinfo", "POST copier" >>))

\* POST /accounts/<copier_id>/unlink: the copier account is deleted.
UnlinkAccount(pid, success) ==
    response' =
        IF session.access_token = None
        THEN Answer("unlink_account", NoForm, "", Redirect("/", <<>>))
        ELSE IF pid = None
        THEN Answer("unlink_account", NoForm, "unlink_error",
                    Redirect("/accounts", << "userinfo" >>))
        ELSE Answer("unlink_account", NoForm,
                    IF success THEN "unlink_success" ELSE "unlink_error",
                    Redirect("/accounts", << "userinfo", "DELETE copier" >>))

\* The variables a route other than copy_strategy and stop_copy leaves alone.
route_frame == << agg_vars, auth_vars, db_vars, utc_now, copying, workers >>

\* One browser that logs in and submits the copy and the stop-copy form.
NextCopy ==
    \/ Login
    \/ \E has_code \in BOOLEAN : Index(has_code, [access_token |-> "tokA"], FALSE)
    \/ \E c \in CopierIds, st \in StrategyIds, v \in TradeSizeValues,
          src \in Sources, slug \in PortalSlugs, g \in GetStatuses, ok \in BOOLEAN :
            /\ CopyStrategy(c, st, v, src, slug, g, ok)
            /\ UNCHANGED << agg_vars, auth_vars, viewed, utc_now, workers >>
    \/ \E c \in CopierIds, st \in StrategyIds, src \in Sources, ok \in BOOLEAN :
            /\ StopCopy(c, st, src, ok)
            /\ UNCHANGED << agg_vars, auth_vars, db_vars, utc_now, workers >>

SpecCopy == Init /\ [][NextCopy]_vars

\* ------------------------------------------------------------------ admin

\* No check of the admin login.
RequireAdminOpen(s) == TRUE

\* require_admin() returns None: the session is an admin's.
RequireAdmin(s) == s.admin_authenticated

\* The id of the portal a request names: a row of the table is named by its
\* slug, "gone" names no row.
PortalIds == {"alpha", "beta", "new1", "gone"}

\* secrets.token_urlsafe(32): a slug no row has.
FreshSlug == CHOOSE slug \in {"new" \o ToString(i) : i \in 1..MaxPortals} :
                 slug \notin DOMAIN portals

\* The name typed in the portal form.
PortalNames == {"Portal", "Renamed"}

\* The variables the admin routes leave alone.
admin_frame ==
    << agg_vars, nlogins, exchanges, pending_next, viewed, utc_now, copying, workers >>

\* /admin/login: the POST of the right password marks the session as an
\* admin's; configured tells whether ADMIN_PASSWORD is set.
AdminLogin(method, configured, password_ok) ==
    /\ IF method = "POST"
       THEN IF ~configured
            THEN /\ response' = Answer("admin_login", NoForm, "", Status(500, <<>>))
                 /\ UNCHANGED session
            ELSE IF password_ok
            THEN /\ session' = [session EXCEPT !.admin_authenticated = TRUE]
                 /\ response' = Answer("admin_login", NoForm, "",
                                       Redirect("/admin/portals", <<>>))
            ELSE /\ response' = Answer("admin_login", NoForm, "Invalid password",
                                       Page("admin_login.html", None, <<>>))
                 /\ UNCHANGED session
       ELSE /\ response' =
                 Answer("admin_login", NoForm, "",
                        IF session.admin_authenticated
                        THEN Redirect("/admin/portals", <<>>)
                        ELSE Page("admin_login.html", None, <<>>))
            /\ UNCHANGED session
    /\ UNCHANGED << portals, admin_frame >>

\* GET /admin/logout
AdminLogout ==
    /\ session' = [session EXCEPT !.admin_authenticated = FALSE]
    /\ response' = Answer("admin_logout", NoForm, "", Redirect("/admin/login", <<>>))
    /\ UNCHANGED << portals, admin_frame >>

\* GET /admin/portals: the list of the portals.
AdminPortals ==
    /\ response' =
          Answer("admin_portals", NoForm, "",
                 IF ~RequireAdmin(session) THEN Redirect("/admin/login", <<>>)
                 ELSE Page("admin_portals.html", None, <<>>))
    /\ UNCHANGED << session, portals, admin_frame >>

\* /admin/portals/create: the POST adds a portal with a fresh slug.
AdminPortalCreate(method, name, active) ==
    /\ IF ~RequireAdmin(session)
       THEN /\ response' = Answer("admin_portal_create", NoForm, "",
                                  Redirect("/admin/login", <<>>))
            /\ UNCHANGED portals
       ELSE IF method = "POST"
       THEN /\ Cardinality(DOMAIN portals) < MaxPortals
            /\ portals' = [slug \in DOMAIN portals \cup {FreshSlug} |->
                             IF slug \in DOMAIN portals THEN portals[slug]
                             ELSE PortalRow(name, active)]
            /\ response' = Answer("admin_portal_create", NoForm, "",
                                  Redirect("/admin/portals", <<>>))
       ELSE /\ response' = Answer("admin_portal_create", NoForm, "",
                                  Page("admin_portal_form.html", None, <<>>))
            /\ UNCHANGED portals
    /\ UNCHANGED << session, admin_frame >>

\* /admin/portals/<portal_id>/edit: the POST sets name and is_active.
AdminPortalEdit(portal_id, method, name, active) ==
    LET form == [ portal_id |-> portal_id ]
    IN
    /\ IF ~RequireAdmin(session)
       THEN /\ response' = Answer("admin_portal_edit", form, "",
                                  Redirect("/admin/login", <<>>))
            /\ UNCHANGED portals
       ELSE IF portal_id \notin DOMAIN portals
       THEN /\ response' = Answer("admin_portal_edit", form, "", Status(404, <<>>))
            /\ UNCHANGED portals
       ELSE IF method = "POST"
       THEN /\ portals' = [portals EXCEPT ![portal_id].name = name,
                                          ![portal_id].is_active = active]
            /\ response' = Answer("admin_portal_edit", form, "",
                                  Redirect("/admin/portals", <<>>))
       ELSE /\ response' = Answer("admin_portal_edit", form, "",
                                  Page("admin_portal_form.html", None, <<>>))
            /\ UNCHANGED portals
    /\ UNCHANGED << session, admin_frame >>

\* POST /admin/portals/<portal_id>/delete
AdminPortalDelete(portal_id) ==
    LET form == [ portal_id |-> portal_id ]
    IN
    /\ IF ~RequireAdmin(session)
       THEN /\ response' = Answer("admin_portal_delete", form, "",
                                  Redirect("/admin/login", <<>>))
            /\ UNCHANGED portals
       ELSE IF portal_id \notin DOMAIN portals
       THEN /\ response' = Answer("admin_portal_delete", form, "", Status(404, <<>>))
            /\ UNCHANGED portals
       ELSE /\ portals' = [slug \in DOMAIN portals \ {portal_id} |-> portals[slug]]
            /\ response' = Answer("admin_portal_delete", form, "",
                                  Redirect("/admin/portals", <<>>))
    /\ UNCHANGED << session, admin_frame >>

\* POST /admin/portals/<portal_id>/toggle
AdminPortalToggle(portal_id) ==
    LET form == [ portal_id |-> portal_id ]
    IN
    /\ IF ~RequireAdmin(session)
       THEN /\ response' = Answer("admin_portal_toggle", form, "",
                                  Redirect("/admin/login", <<>>))
            /\ UNCHANGED portals
       ELSE IF portal_id \notin DOMAIN portals
       THEN /\ response' = Answer("admin_portal_toggle", form, "", Status(404, <<>>))
            /\ UNCHANGED portals
       ELSE /\ portals' = [portals EXCEPT ![portal_id].is_active = ~@]
            /\ response' = Answer("admin_portal_toggle", form, "",
                                  Redirect("/admin/portals", <<>>))
    /\ UNCHANGED << session, admin_frame >>

\* One browser that requests the admin pages, logged in as admin or not.
NextAdmin ==
    \/ \E method \in {"GET", "POST"}, configured \in BOOLEAN, password_ok \in BOOLEAN :
          AdminLogin(method, configured, password_ok)
    \/ AdminLogout
    \/ Logout
    \/ AdminPortals
    \/ \E method \in {"GET", "POST"}, name \in PortalNames, active \in BOOLEAN :
          AdminPortalCreate(method, name, active)
    \/ \E id \in PortalIds, method \in {"GET", "POST"}, name \in PortalNames,
          active \in BOOLEAN :
          AdminPortalEdit(id, method, name, active)
    \/ \E id \in PortalIds : AdminPortalDelete(id)
    \/ \E id \in PortalIds : AdminPortalToggle(id)

SpecAdmin == Init /\ [][NextAdmin]_vars

\* One browser, with or without a token in its session, that requests every
\* route working through the trading API.
NextGuard ==
    \/ Login
    \/ \E has_code \in BOOLEAN, unauthorized \in BOOLEAN :
          Index(has_code, [access_token |-> "tokA"], unauthorized)
    \/ Logout
    \/ \E slug \in Slugs, pid \in {None, "p1"}, unauthorized \in BOOLEAN :
          PortalView(slug, pid, unauthorized)
    \/ \E st \in StrategyIds, slug \in {None, "alpha"}, g \in GetStatuses, ok \in BOOLEAN :
          /\ CopyStrategy("c1", st, "1.5", "portal", slug, g, ok)
          /\ UNCHANGED << agg_vars, auth_vars, viewed, utc_now, workers >>
    \/ \E c \in CopierIds, ok \in BOOLEAN :
          /\ StopCopy(c, "s1", "copying", ok)
          /\ UNCHANGED << agg_vars, auth_vars, db_vars, utc_now, workers >>
    \/ \E ok \in BOOLEAN : Accounts(ok) /\ UNCHANGED route_frame
    \/ \E pid \in {None, "p1"} : Copying(pid) /\ UNCHANGED route_frame
    \/ CopierTrades /\ UNCHANGED route_frame
    \/ \E b \in {None, "broker"}, found \in BOOLEAN :
          GetServers(b, found) /\ UNCHANGED route_frame
    \/ \E pid \in {None, "p1"}, fields_ok \in BOOLEAN, ok \in BOOLEAN :
          LinkAccount(pid, fields_ok, ok) /\ UNCHANGED route_frame
    \/ \E pid \in {None, "p1"}, ok \in BOOLEAN :
          UnlinkAccount(pid, ok) /\ UNCHANGED route_frame

SpecGuard == Init /\ [][NextGuard]_vars

\* ------------------------------------------------------------------ counters

\* The counter a request increments: total_views for a portal view with a
\* profile id, successful_copies for a successful copy made from the portal.
CounterKinds == {"view", "copy"}

\* A request for the portal alpha, passed the checks of its handler, is
\* taken by a worker; it has not queried the portal yet.
Arrive(kind) ==
    /\ Len(workers) < MaxRequests
    /\ workers' = Append(workers, [kind |-> kind, pc |-> "query",
                                   total_views |-> -1, successful_copies |-> -1])
    /\ UNCHANGED << agg_vars, auth_vars, db_vars, utc_now, copying, response >>

\* Portal.query.filter_by(...).first(): the worker's session loads the row.
QueryPortal(w) ==
    /\ workers[w].pc = "query"
    /\ workers' = [workers EXCEPT
                     ![w].pc = "loaded",
                     ![w].total_views = portals["alpha"].total_views,
                     ![w].successful_copies = portals["alpha"].successful_copies]
    /\ UNCHANGED << agg_vars, auth_vars, db_vars, utc_now, copying, response >>

\* portal.<counter> += 1 on the loaded object and db.session.commit(): the
\* UPDATE writes the attributes that were set, computed from the loaded row.
CommitIncrement(w) ==
    /\ workers[w].pc = "loaded"
    /\ workers' = [workers EXCEPT ![w].pc = "done"]
    /\ portals' =
          IF workers[w].kind = "view"
          THEN [portals EXCEPT !["alpha"].total_views = workers[w].total_views + 1,
                               !["alpha"].last_viewed_at = utc_now]
          ELSE [portals EXCEPT
                  !["alpha"].successful_copies = workers[w].successful_copies + 1,
                  !["alpha"].last_copied_at = utc_now]
    /\ UNCHANGED << agg_vars, auth_vars, viewed, utc_now, copying, response >>

\* The workers of the server handle requests for one portal at the same time.
NextCounters ==
    \/ TickUtc
    \/ \E kind \in CounterKinds : Arrive(kind)
    \/ \E w \in 1..Len(workers) : QueryPortal(w)
    \/ \E w \in 1..Len(workers) : CommitIncrement(w)

SpecCounters == Init /\ [][NextCounters]_vars

\* ------------------------------------------------------------------ claims

\* The call of thread t has returned from a miss / from the cache.
Missed(t) == pc[t] = "done" /\ ~ret[t].cached
Hit(t) == pc[t] = "done" /\ ret[t].cached

\* The ids of the accounts of thread t's copiers_list, as str(copier.get('id', '')).
InputIds(t) ==
    {Str(Get(copiers_list[t].items[i].id, "")) : i \in 1..Len(copiers_list[t].items)}

\* The copier ids of a ranked list.
RankedIds(ranked) == {ranked[i].copier_id : i \in 1..Len(ranked)}

\* C1: a call that finds, for its profile id, an entry with
\* current_time - timestamp < TTL returns that entry's summary (same ranked
\* list, same totals, same generation timestamp) with cached = TRUE, issues no
\* upstream request and leaves the cache as it is.
C1_FreshEntryIsReturned ==
    [][\A t \in Threads :
        ( /\ pc[t] = "check" /\ pc'[t] # "check"
          /\ profile_id[t] \in DOMAIN cache
          /\ current_time[t] - cache[profile_id[t]].timestamp < OPEN_POSITIONS_CACHE_TTL )
        => LET stored == cache[profile_id[t]].data
           IN  /\ pc'[t] = "done"
               /\ ret'[t].cached = TRUE
               /\ ret'[t].copiers_with_positions = stored.copiers_with_positions
               /\ ret'[t].total_copiers_with_positions = stored.total_copiers_with_positions
               /\ ret'[t].total_open_positions = stored.total_open_positions
               /\ ret'[t].timestamp = stored.timestamp
               /\ futures'[t] = <<>>
               /\ cache' = cache
    ]_vars

\* A call has returned a cached summary that lists an account, without any
\* upstream request, while the entry is still the one in the cache.
C1_Witness ==
    \E t \in Threads :
        /\ Hit(t)
        /\ ret[t].total_open_positions > 0
        /\ TotalRequests(t) = 0
        /\ cache[profile_id[t]].data.copiers_with_positions = ret[t].copiers_with_positions

C3_ValidExactlyWithinTTL ==
    [][\A t \in Threads :
        (pc[t] = "check" /\ pc'[t] # "check" /\ profile_id[t] \in DOMAIN cache)
        => LET T == cache[profile_id[t]].timestamp
           IN  /\ (current_time[t] <= T + OPEN_POSITIONS_CACHE_TTL - 1)
                    <=> (pc'[t] = "done" /\ ret'[t].cached)
               /\ (current_time[t] >= T + OPEN_POSITIONS_CACHE_TTL)
                    <=> (pc'[t] = "miss" /\ cache' = cache)
    ]_vars

\* One thread was served from the cache at T + TTL - 1, and another, calling
\* at T + TTL for the same entry, has found it stale.
C3_Witness ==
    \E a, b \in Threads :
        /\ Hit(a)
        /\ current_time[a] = ret[a].timestamp + OPEN_POSITIONS_CACHE_TTL - 1
        /\ pc[b] = "miss"
        /\ profile_id[b] = profile_id[a]
        /\ cache[profile_id[b]].timestamp = ret[a].timestamp
        /\ current_time[b] = cache[profile_id[b]].timestamp + OPEN_POSITIONS_CACHE_TTL

\* A fetch that failed: an exception of the request, a status other than
\* 200, or a body that is not a JSON list.
FetchFailed(resp) == resp.exc # "none" \/ resp.status # 200 \/ resp.body # "list"

\* The sum of the lengths of the lists that the fetches i..Len(fs) returned.
RECURSIVE SumFetched(_, _)
SumFetched(fs, i) ==
    IF i > Len(fs) THEN 0
    ELSE (IF FetchFailed(fs[i].resp) THEN 0 ELSE fs[i].resp.len) + SumFetched(fs, i + 1)

\* C4: whatever fetches of a call fail (timeout, network error, status other
\* than 200, body that is no JSON or no list), each failed account counts 0
\* (it is not listed and adds nothing to the total), every other account keeps
\* the count its own fetch returned, and the call returns its summary.
C4_FailedFetchCountsZero ==
    \A t \in Threads :
        (Missed(t) /\ ~NotList(copiers_list[t]))
        => LET ranked == ret[t].copiers_with_positions
               fs == futures[t]
           IN  /\ \A i \in 1..Len(fs) :
                    /\ fs[i].state = "done"
                    /\ FetchFailed(fs[i].resp) =>
                          /\ copier_counts[t][fs[i].cid] = 0
                          /\ fs[i].cid \notin RankedIds(ranked)
                    /\ ~FetchFailed(fs[i].resp) =>
                          /\ copier_counts[t][fs[i].cid] = fs[i].resp.len
                          /\ fs[i].resp.len > 0 =>
                                \E k \in 1..Len(ranked) :
                                    /\ ranked[k].copier_id = fs[i].cid
                                    /\ ranked[k].open_count = fs[i].resp.len
               /\ ret[t].total_open_positions = SumFetched(fs, 1)
               /\ ret[t].total_copiers_with_positions >= 0

\* A call has returned after three fetches of which one timed out, one got a
\* status other than 200 and one returned a list of two signals.
C4_Witness ==
    \E t \in Threads :
        /\ Missed(t)
        /\ Len(futures[t]) = 3
        /\ \E i, j, k \in 1..3 :
            /\ futures[t][i].resp.exc = "Timeout"
            /\ futures[t][j].resp.status = 500
            /\ futures[t][k].resp.exc = "none" /\ futures[t][k].resp.status = 200
            /\ futures[t][k].resp.body = "list" /\ futures[t][k].resp.len = 2
        /\ ret[t].total_open_positions = 2
        /\ Len(ret[t].copiers_with_positions) = 1

\* The accounts of a list whose fetched count is greater than 0.
WithCount(items, counts) ==
    SelectSeq(items, LAMBDA c : CountOf(counts, Str(Get(c.id, ""))) > 0)

\* C5: on a miss the ranked list holds exactly the input accounts (by id)
\* whose fetched count is greater than 0, each once, with its own count and
\* its own info; an account with count 0 is left out, and the list is the one
\* computed from the input without the accounts of count 0.
C5_RankedListIsThePositiveAccounts ==
    \A t \in Threads :
        (Missed(t) /\ ~NotList(copiers_list[t]))
        => LET ranked == ret[t].copiers_with_positions
               counts == copier_counts[t]
           IN  /\ RankedIds(ranked) = {cid \in InputIds(t) : CountOf(counts, cid) > 0}
               /\ Cardinality(RankedIds(ranked)) = Len(ranked)
               /\ \A k \in 1..Len(ranked) :
                    /\ ranked[k].open_count = counts[ranked[k].copier_id]
                    /\ \E i \in 1..Len(copiers_list[t].items) :
                         LET info == CopierInfo(copiers_list[t].items[i])
                         IN  /\ info.copier_id = ranked[k].copier_id
                             /\ info.name = ranked[k].name
                             /\ info.server_code = ranked[k].server_code
                             /\ info.username = ranked[k].username
               /\ ranked = BuildResult(BuildInfoMap(WithCount(copiers_list[t].items, counts)),
                                       counts, current_time[t]).copiers_with_positions

\* A call over three accounts has listed two, the third having count 0.
C5_Witness ==
    \E t \in Threads :
        /\ Missed(t)
        /\ Len(copiers_list[t].items) = 3
        /\ Len(ret[t].copiers_with_positions) = 2
        /\ \E cid \in DOMAIN copier_counts[t] :
            /\ copier_counts[t][cid] = 0
            /\ cid \notin RankedIds(ret[t].copiers_with_positions)
        /\ \E k \in 1..2 : ret[t].copiers_with_positions[k].open_count = 2

\* C6: the ranked list a call returns is in descending order of open_count:
\* no entry has a smaller count than the entry after it.
C6_RankedListIsDescending ==
    \A t \in Threads :
        pc[t] = "done"
        => LET ranked == ret[t].copiers_with_positions
           IN  \A k \in 1..(Len(ranked) - 1) :
                    ranked[k].open_count >= ranked[k + 1].open_count

\* A call has returned a list of three whose first entry is not the first
\* account of the input: the sort has moved a larger count to the front, and
\* two equal counts follow it.
C6_Witness ==
    \E t \in Threads :
        LET ranked == ret[t].copiers_with_positions
        IN  /\ Missed(t)
            /\ Len(ranked) = 3
            /\ ranked[1].copier_id # copier_info_map[t][1].copier_id
            /\ ranked[1].open_count > ranked[2].open_count
            /\ ranked[2].open_count = ranked[3].open_count

\* The sum of f over the set S.
RECURSIVE SumOver(_, _)
SumOver(S, f) ==
    IF S = {} THEN 0
    ELSE LET x == CHOOSE y \in S : TRUE IN f[x] + SumOver(S \ {x}, f)

\* C7: in the summary of a miss, total_open_positions is the sum of the
\* fetched counts of the input accounts (an account being an id with a
\* fetched count), and total_copiers_with_positions is the number of those
\* with count > 0, which is the length of the ranked list.
C7_TotalsAreSumAndNumber ==
    \A t \in Threads :
        (Missed(t) /\ ~NotList(copiers_list[t]))
        => LET counts == copier_counts[t]
               ids == InputIds(t) \cap DOMAIN counts
           IN  /\ ret[t].total_open_positions = SumOver(ids, counts)
               /\ ret[t].total_copiers_with_positions
                    = Cardinality({cid \in ids : counts[cid] > 0})
               /\ ret[t].total_copiers_with_positions = Len(ret[t].copiers_with_positions)

\* Counts c, c and 0 over three accounts have given totals 2c and 2 (c = 2).
C7_Witness ==
    \E t \in Threads :
        /\ Missed(t)
        /\ DOMAIN copier_counts[t] = {"a", "b", "c"}
        /\ copier_counts[t]["a"] = 2 /\ copier_counts[t]["b"] = 2 /\ copier_counts[t]["c"] = 0
        /\ ret[t].total_open_positions = 4
        /\ ret[t].total_copiers_with_positions = 2

\* C8 as stated: on a miss one upstream request is issued for every account
\* of the input list, none skipped and none fetched twice, also for accounts
\* that share an id or whose id is empty or missing.
C8_OneRequestPerListedAccount ==
    \A t \in Threads :
        (Missed(t) /\ ~NotList(copiers_list[t]))
        => /\ TotalRequests(t) = Len(copiers_list[t].items)
           /\ \A i \in 1..Len(copiers_list[t].items) :
                Requests(t, Str(Get(copiers_list[t].items[i].id, ""))) = 1

\* C8, amended: on a miss exactly one upstream request is issued for every
\* distinct non-empty str(id) of the input list; accounts that share an id
\* share one request, and an account whose id is '' or that has no 'id' key
\* is skipped without a request (an id of None is fetched as 'None').
C8_OneRequestPerDistinctId ==
    \A t \in Threads :
        (Missed(t) /\ ~NotList(copiers_list[t]))
        => /\ \A cid \in InputIds(t) \ {""} : Requests(t, cid) = 1
           /\ Requests(t, "") = 0
           /\ TotalRequests(t) = Cardinality(InputIds(t) \ {""})

\* A call over two accounts that share an id has returned after one request,
\* and (in another behaviour) so has a call over an account without id and one with.
C8_Witness ==
    \E t \in Threads :
        /\ Missed(t)
        /\ Len(copiers_list[t].items) = 2
        /\ TotalRequests(t) = 1
        /\ ret[t].total_open_positions > 0

\* C9 as stated: any call with an empty or absent list returns an empty
\* ranked list and zero totals without an upstream request, and the cache
\* then holds that summary for the profile.
C9_EmptyListGivesEmptySummary ==
    [][\A t \in Threads :
        (pc[t] \in {"check", "miss"} /\ pc'[t] = "done" /\ NotList(copiers_list[t]))
        => /\ ret'[t].copiers_with_positions = <<>>
           /\ ret'[t].total_copiers_with_positions = 0
           /\ ret'[t].total_open_positions = 0
           /\ futures'[t] = <<>>
           /\ profile_id[t] \in DOMAIN cache'
           /\ cache'[profile_id[t]].data = [ret'[t] EXCEPT !.cached = FALSE]
    ]_vars

\* C9, amended: a call with an empty or absent list that finds no fresh entry
\* for its profile returns, with cached = FALSE, an empty ranked list and zero
\* totals without an upstream request and stores that summary, and a call
\* for the profile that finds this entry within the TTL is a hit returning
\* it; a call with an empty list that finds a fresh entry returns that
\* entry's summary, whatever it lists, and stores nothing.
C9_EmptyListOnMissIsCached ==
    [][\A t \in Threads :
        /\ (pc[t] = "miss" /\ pc'[t] = "done" /\ NotList(copiers_list[t]))
           => /\ ret'[t] = [ copiers_with_positions |-> <<>>,
                             total_copiers_with_positions |-> 0,
                             total_open_positions |-> 0,
                             cached |-> FALSE,
                             timestamp |-> current_time[t] ]
              /\ futures'[t] = <<>>
              /\ profile_id[t] \in DOMAIN cache'
              /\ cache'[profile_id[t]] = [timestamp |-> current_time[t], data |-> ret'[t]]
        /\ ( /\ pc[t] = "check" /\ pc'[t] # "check"
             /\ profile_id[t] \in DOMAIN cache
             /\ cache[profile_id[t]].data.copiers_with_positions = <<>>
             /\ current_time[t] - cache[profile_id[t]].timestamp < OPEN_POSITIONS_CACHE_TTL )
           => /\ pc'[t] = "done"
              /\ ret'[t] = [cache[profile_id[t]].data EXCEPT !.cached = TRUE]
              /\ ret'[t].total_open_positions = 0
        /\ (pc[t] = "check" /\ pc'[t] = "done" /\ NotList(copiers_list[t]))
           => /\ ret'[t] = [cache[profile_id[t]].data EXCEPT !.cached = TRUE]
              /\ cache' = cache
    ]_vars

\* Thread a has stored the empty summary of an empty list, and thread b,
\* calling later within the TTL, has been served it from the cache.
C9_Witness ==
    \E a, b \in Threads :
        /\ a # b
        /\ Missed(a) /\ NotList(copiers_list[a])
        /\ Hit(b) /\ profile_id[b] = profile_id[a]
        /\ current_time[b] > current_time[a]
        /\ ret[b].timestamp = current_time[a]
        /\ ret[b].copiers_with_positions = <<>>
        /\ cache[profile_id[a]] = [timestamp |-> current_time[a], data |-> ret[a]]

\* The sum of the open_count of the entries i..Len(ranked).
RECURSIVE SumRanked(_, _)
SumRanked(ranked, i) ==
    IF i > Len(ranked) THEN 0 ELSE ranked[i].open_count + SumRanked(ranked, i + 1)

\* A summary that is whole: its totals are those of its list.
Complete(r) ==
    /\ r.timestamp >= 0
    /\ r.total_copiers_with_positions = Len(r.copiers_with_positions)
    /\ r.total_open_positions = SumRanked(r.copiers_with_positions, 1)

\* The cache entry the call of thread t writes.
EntryOf(t) == [timestamp |-> current_time[t], data |-> ret[t]]

\* C10: when two calls for the same profile have both missed and returned,
\* each has returned a complete summary, and the profile's cache entry is,
\* timestamp and data together, the entry one of the two wrote.
C10_LastWriterWinsWhole ==
    \A a, b \in Threads :
        (a # b /\ Missed(a) /\ Missed(b) /\ profile_id[a] = profile_id[b])
        => /\ Complete(ret[a]) /\ Complete(ret[b])
           /\ profile_id[a] \in DOMAIN cache
           /\ cache[profile_id[a]] \in {EntryOf(a), EntryOf(b)}
           /\ Complete(cache[profile_id[a]].data)
           /\ cache[profile_id[a]].timestamp = cache[profile_id[a]].data.timestamp

\* Two calls for one profile overlapped on a stale entry (b entered less
\* than a TTL after a and still missed, so it checked before a stored), they
\* computed different summaries, and a, the first to enter, wrote last.
C10_Witness ==
    \E a, b \in Threads :
        /\ a # b /\ Missed(a) /\ Missed(b)
        /\ profile_id[a] = profile_id[b]
        /\ current_time[a] >= OPEN_POSITIONS_CACHE_TTL
        /\ current_time[a] < current_time[b]
        /\ ret[a].total_open_positions # ret[b].total_open_positions
        /\ cache[profile_id[a]] = EntryOf(a)

\* ------------------------------------------------------------------ C11

\* C11: at every moment of an aggregation call, the fetches of the call that
\* are in flight (started by a worker, not yet completed) number at most
\* MAX_PARALLEL_WORKERS, also when the list holds more accounts than that.
C11_InFlightAtMostMaxWorkers ==
    \A t \in Threads :
        Cardinality(InState(t, "running")) <= MAX_PARALLEL_WORKERS

\* Every worker is busy while a fetch of the same call still waits.
C11_Witness ==
    /\ Len(futures[1]) > MAX_PARALLEL_WORKERS
    /\ Cardinality(InState(1, "running")) = MAX_PARALLEL_WORKERS
    /\ InState(1, "queued") # {}

\* ------------------------------------------------------------------ C12

\* C12: a call that fans out builds its summary, writes the cache and
\* returns only in a step taken when every fetch it submitted is done (has
\* returned or failed) and has its count recorded; until then the call has
\* returned nothing and has written nothing to the cache.
C12_SummaryOnlyAfterEveryFetch ==
    [][\A t \in Threads :
          pc[t] = "fetch" =>
              /\ pc'[t] = "fetch" => (ret'[t] = NoResult /\ cache' = cache)
              /\ pc'[t] # "fetch" =>
                    /\ \A i \in 1..Len(futures[t]) :
                          /\ futures[t][i].state = "done"
                          /\ futures[t][i].cid \in DOMAIN copier_counts[t]
                    /\ ret'[t] = BuildResult(copier_info_map[t], copier_counts[t],
                                             current_time[t])
                    /\ cache'[profile_id[t]].data = ret'[t]]_vars

\* A call has returned a summary of several fetches, one of them failed.
C12_Witness ==
    /\ Missed(1)
    /\ Len(futures[1]) >= 2
    /\ \E i \in 1..Len(futures[1]) : FetchFailed(futures[1][i].resp)
    /\ \E i \in 1..Len(futures[1]) : ~FetchFailed(futures[1][i].resp)

\* ------------------------------------------------------------------ C13

\* The call of thread t has returned a summary in which every account whose
\* fetch timed out counts 0.
ReturnedWithTimeoutsAsZero(t) ==
    /\ pc[t] = "done"
    /\ ret[t] # NoResult
    /\ \A i \in 1..Len(futures[t]) :
          futures[t][i].resp.exc = "Timeout" =>
              /\ CountOf(copier_counts[t], futures[t][i].cid) = 0
              /\ futures[t][i].cid \notin RankedIds(ret[t].copiers_with_positions)

\* C13: when every fetch returns or times out and the threads are scheduled,
\* every call that was entered eventually returns a summary, and an account
\* whose fetch timed out counts 0 in it without holding the call back.
C13_EveryCallReturns ==
    \A t \in Threads :
        (pc[t] \in {"check", "miss", "fetch"}) ~> ReturnedWithTimeoutsAsZero(t)

\* A call has returned although one of its fetches timed out.
C13_Witness ==
    /\ ReturnedWithTimeoutsAsZero(1)
    /\ \E i \in 1..Len(futures[1]) : futures[1][i].resp.exc = "Timeout"
    /\ ret[1].total_open_positions > 0

\* ------------------------------------------------------------------ C14

C15_CachedIdsNeverShrink ==
    [][DOMAIN cache \subseteq DOMAIN cache']_vars

\* An entry past its TTL is still held after a later store for another
\* profile id.
C15_Witness ==
    \E p, q \in DOMAIN cache :
        /\ p # q
        /\ cache[q].timestamp - cache[p].timestamp >= OPEN_POSITIONS_CACHE_TTL

\* ------------------------------------------------------------------ C16

\* The (profile, day) pairs of the tracked views of a portal.
ViewersByDay(slug) == { << v[2], v[3] >> : v \in {w \in viewed : w[1] = slug} }

\* C16: the view count of a portal is at most the number of distinct
\* (profile, UTC day) pairs that viewed it: a profile that views a portal
\* again on the same day does not raise the count.
C16_OneViewPerProfilePerDay ==
    \A slug \in DOMAIN portals :
        portals[slug].total_views <= Cardinality(ViewersByDay(slug))

\* ------------------------------------------------------------------ C17

\* Two summaries with the same ranked list and the same totals.
SameSummary(r1, r2) ==
    /\ r1.copiers_with_positions = r2.copiers_with_positions
    /\ r1.total_copiers_with_positions = r2.total_copiers_with_positions
    /\ r1.total_open_positions = r2.total_open_positions

\* C17: a call whose check finds its profile's entry within the TTL is
\* served from it whatever token and whatever list it was passed (an empty
\* list included), and its list and totals are those of every other call
\* that was served from the same entry, whatever that call was passed.
C17_HitIgnoresTokenAndList ==
    [][\A t \in Threads :
        ( /\ pc[t] = "check" /\ pc'[t] # "check"
          /\ CacheHit(cache, profile_id[t], current_time[t]) )
        => /\ pc'[t] = "done"
           /\ ret'[t].cached
           /\ \A u \in Threads \ {t} :
                 ( /\ Hit(u)
                   /\ profile_id[u] = profile_id[t]
                   /\ ret[u] = HitResult(cache[profile_id[t]]) )
                 => SameSummary(ret'[t], ret[u])
    ]_vars

\* Two calls that were passed different tokens and different lists, one of
\* them empty, were served the same summary, which lists an account.
C17_Witness ==
    \E t, u \in Threads :
        /\ Hit(t) /\ Hit(u)
        /\ profile_id[t] = profile_id[u]
        /\ token[t] # token[u]
        /\ copiers_list[t] = List(<<>>)
        /\ copiers_list[u] # List(<<>>)
        /\ ret[t] = ret[u]
        /\ ret[t].total_open_positions > 0

\* ------------------------------------------------------------------ C18

C19_StoredEntryIsFresh ==
    [][\A t \in Threads :
        (pc[t] = "fetch" /\ pc'[t] = "done")
        => now' - cache'[profile_id[t]].timestamp < OPEN_POSITIONS_CACHE_TTL
    ]_vars

\* ------------------------------------------------------------------ C20

\* The step gives profile id q an entry or changes the one it has.
EntryChanged(q) ==
    /\ q \in DOMAIN cache'
    /\ q \in DOMAIN cache => cache'[q] # cache[q]

\* C20: the steps of a call served from the cache (entering, and the check
\* that hits) leave the whole cache as it is, the timestamp of the entry
\* included; an entry is created or changed only by the storing step of a
\* call that missed, and only for that call's own profile id.
C20_CallChangesOnlyItsOwnEntry ==
    [][ /\ \A t \in Threads :
              (pc[t] \in {"idle", "done", "check"} /\ pc'[t] # pc[t]) => cache' = cache
        /\ \A q \in Profiles :
              EntryChanged(q) =>
                  /\ \E t \in Threads :
                        /\ pc[t] \in {"miss", "fetch"} /\ pc'[t] = "done"
                        /\ profile_id[t] = q
                  /\ \A r \in DOMAIN cache \ {q} : cache'[r] = cache[r]
                  /\ DOMAIN cache' = DOMAIN cache \cup {q}
    ]_vars

\* A call was served, later than its generation, an entry whose timestamp
\* is still the generation's, while the other profile has an entry of its own.
C20_Witness ==
    \E t \in Threads :
        /\ Hit(t)
        /\ DOMAIN cache = Profiles
        /\ cache[profile_id[t]].data.timestamp = ret[t].timestamp
        /\ cache[profile_id[t]].timestamp = ret[t].timestamp
        /\ current_time[t] > ret[t].timestamp
        /\ \E q \in Profiles : cache[q].timestamp # ret[t].timestamp


\* ------------------------------------------------------------------ C21

\* The step is a request handled by the route: it is not a step of the
\* clock, and the response it leaves is the route's.
Requested(route) == utc_now' = utc_now /\ response'.route = route

\* The writes among the calls a request made to the trading API.
Writes(r) == SelectSeq(r.calls, LAMBDA c : c \in WriteCalls)

\* The step handled a copy_strategy request that had a token, a copier id
\* and a strategy id.
CopyRequested ==
    /\ Requested("copy_strategy")
    /\ session.access_token # None
    /\ ~Falsy(response'.form.copier_id)
    /\ ~Falsy(response'.form.strategy_id)

\* C21: a copy_strategy request with a token, a copier id and a strategy id
\* sends exactly one write upstream: a PUT when the pair is copied already,
\* a POST when it is not; no POST is sent for a pair that is copied.
C21_OneWriteMatchingUpstream ==
    [][ CopyRequested =>
          Writes(response') =
            IF << response'.form.copier_id, response'.form.strategy_id >> \in copying
            THEN << "PUT copy-settings" >> ELSE << "POST copy-settings" >> ]_vars

\* ------------------------------------------------------------------ C26

\* The copy_strategy request the step handled succeeded upstream, came from
\* a portal page and named a portal that exists.
CopyCounted ==
    /\ session.access_token # None
    /\ response'.flash = "copy_success"
    /\ response'.form.source = "portal"
    /\ ~Falsy(response'.form.portal_slug)
    /\ response'.form.portal_slug \in DOMAIN portals

\* C26: a copy_strategy request adds exactly 1 to successful_copies of the
\* portal of the submitted slug and sets its last_copied_at when the upstream
\* write succeeded, source is 'portal', a portal_slug was submitted and that
\* portal exists; every other copy_strategy request changes no Portal row.
C26_CountedIffSuccessfulPortalCopy ==
    [][ Requested("copy_strategy") =>
          portals' =
            IF CopyCounted
            THEN [portals EXCEPT
                    ![response'.form.portal_slug].successful_copies = @ + 1,
                    ![response'.form.portal_slug].last_copied_at = utc_now]
            ELSE portals ]_vars

\* A successful copy from the portal page of alpha was counted.
C26_Witness ==
    /\ response.route = "copy_strategy"
    /\ response.flash = "copy_success"
    /\ response.form.source = "portal"
    /\ response.form.portal_slug = "alpha"
    /\ portals["alpha"].successful_copies = 1
    /\ portals["alpha"].last_copied_at = utc_now

\* ------------------------------------------------------------------ C23

\* The routes that work through the trading API for the user of the session.
GuardedRoutes ==
    {"accounts", "copying", "copier_trades", "copy_strategy", "stop_copy",
     "link_account", "unlink_account", "get_servers", "portal_view"}

\* The step handled a request to one of these routes whose session held no
\* access_token.
RequestedWithoutToken ==
    /\ \E route \in GuardedRoutes : Requested(route)
    /\ session.access_token = None

\* C23 as stated: a request without access_token to one of these routes
\* makes no upstream call and ends in a redirect or a 401.
C23_NoTokenRedirectOr401 ==
    [][ RequestedWithoutToken =>
          /\ response'.calls = <<>>
          /\ response'.status \in {302, 401} ]_vars

\* C23: a request without access_token to one of these routes makes no
\* upstream call, changes nothing upstream and ends in a redirect or a 401,
\* or, for a portal url that names no active portal, in a 404.
C23_NoTokenNoUpstreamCall ==
    [][ RequestedWithoutToken =>
          /\ response'.calls = <<>>
          /\ copying' = copying
          /\ \/ response'.status \in {302, 401}
             \/ /\ response'.route = "portal_view"
                /\ response'.status = 404
                /\ \/ response'.form.slug \notin DOMAIN portals
                   \/ ~portals[response'.form.slug].is_active ]_vars

\* A stop-copy form naming a copied pair was posted without a token and
\* answered with the redirect to the index.
C23_Witness ==
    /\ session.access_token = None
    /\ response.route = "stop_copy"
    /\ << response.form.copier_id, response.form.strategy_id >> \in copying
    /\ response.status = 302
    /\ response.location = "/"

\* ------------------------------------------------------------------ C22

\* The calls a request made to the identity provider and the trading API.
CallsOf(r) == { r.calls[i] : i \in 1..Len(r.calls) }

\* The step handled a callback: a request to index that carried a code.
Callback == Requested("index") /\ response'.form.code

RequestedAny == utc_now' = utc_now /\ response' # NoRequest

\* The step exchanged a code for a token and stored the token.
ExchangeSucceeded ==
    /\ Requested("index")
    /\ response'.calls = << "exchange" >>
    /\ response'.status = 302

\* C24: when the strategy fetch of the dashboard or of a portal reports 401,
\* the handler removes access_token and redirects to index without rendering
\* a page; an index request of a session without token that exchanges no
\* code shows the login page; and from a session without token no request
\* renders a page with a token, nor puts one in the session, unless it is a
\* successful token exchange.
C24_UnauthorizedTokenDropped ==
    [][ /\ (RequestedAny /\ "fetch 401" \in CallsOf(response')) =>
             /\ session'.access_token = None
             /\ response'.status = 302
             /\ response'.location = "/"
             /\ response'.page = None
        /\ (Requested("index") /\ session.access_token = None
              /\ "exchange" \notin CallsOf(response')) =>
             response'.page = "login.html"
        /\ (RequestedAny /\ session.access_token = None /\ ~ExchangeSucceeded) =>
             /\ session'.access_token = None
             /\ response'.token = None ]_vars

\* The strategy fetch of a portal page reported 401: the token is gone from
\* the session and the browser was sent to the index.
C24_Witness ==
    /\ response.route = "portal_view"
    /\ "fetch 401" \in CallsOf(response)
    /\ response.location = "/"
    /\ session.access_token = None

\* ------------------------------------------------------------------ C25

\* The step handled a request for an active portal from a session without
\* token.
PortalRequestedLoggedOut ==
    /\ Requested("portal_view")
    /\ session.access_token = None
    /\ response'.status # 404

\* C25 as stated: the first successful token exchange after a request of a
\* logged-out user for a portal redirects to the url of that request.
C25_FirstExchangeRedirectsToPortal ==
    [][ (ExchangeSucceeded /\ pending_next # None) =>
          response'.location = pending_next ]_vars

\* C25: a request of a logged-out user for an active portal saves its url as
\* next_url and sends the browser to the login; a successful token exchange
\* redirects to the next_url of the session and removes it, and to the
\* dashboard when the session holds none, as after a logout or an exchange
\* that used it.
C25_ExchangeRedirectsToNextUrl ==
    [][ /\ PortalRequestedLoggedOut =>
             /\ session'.next_url = PortalUrl(response'.form.slug)
             /\ response'.status = 302
             /\ response'.location = "/login"
        /\ ExchangeSucceeded =>
             /\ response'.location =
                  IF session.next_url # None THEN session.next_url ELSE "/"
             /\ session'.next_url = None ]_vars

\* The exchange that followed the request for the portal alpha sent the
\* browser to the portal and took next_url out of the session.
C25_Witness ==
    /\ response.route = "index"
    /\ response.calls = << "exchange" >>
    /\ response.location = PortalUrl("alpha")
    /\ session.next_url = None
    /\ session.access_token # None

\* ------------------------------------------------------------------ C28

\* The routes that list, create, edit, delete and toggle portals.
AdminRoutes ==
    {"admin_portals", "admin_portal_create", "admin_portal_edit",
     "admin_portal_delete", "admin_portal_toggle"}

\* C28: an admin portal operation requested from a session in which
\* admin_authenticated is not set redirects to the admin login and leaves
\* the portals table as it was.
C28_AdminOperationsNeedLogin ==
    [][ ((\E route \in AdminRoutes : Requested(route))
           /\ ~session.admin_authenticated) =>
          /\ response'.status = 302
          /\ response'.location = "/admin/login"
          /\ portals' = portals ]_vars

\* After an admin logged out, the deletion of an existing portal was asked
\* for and answered with the redirect to the admin login.
C28_Witness ==
    /\ response.route = "admin_portal_delete"
    /\ response.form.portal_id \in DOMAIN portals
    /\ response.location = "/admin/login"
    /\ ~session.admin_authenticated
    /\ portals # InitialPortals

\* ------------------------------------------------------------------ C27

\* The requests of a kind whose increment is committed.
Committed(kind) ==
    { w \in 1..Len(workers) : workers[w].kind = kind /\ workers[w].pc = "done" }

\* C27: whatever the interleaving, each counter of the portal has grown by
\* the number of requests that incremented it.
C27_NoLostIncrement ==
    /\ portals["alpha"].total_views = Cardinality(Committed("view"))
    /\ portals["alpha"].successful_copies = Cardinality(Committed("copy"))

====
